---- MODULE Spec2Model ----
(***************************************************************************)
(* The flow-layout solver of violet (src/src/layout.rs): the margin        *)
(* collapsing cursor, the sizing query, Layout::apply and update_subtree,  *)
(* over a scene graph of flow containers, stacking containers and leaves.  *)
(*                                                                         *)
(* Numbers.  The code computes in f32.  A number is modelled as a pair     *)
(* <<n, d>>: an exact rational n/d with d > 0 in lowest terms, or one of   *)
(* the IEEE specials <<0,0>> (NaN), <<1,0>> (+inf), <<-1,0>> (-inf).       *)
(* Division by zero, inf - inf, 0 * inf, the NaN-ignoring max/min of       *)
(* f32::max / f32::min and NaN /= NaN are kept.  A sum or difference of    *)
(* binary fractions is rounded to the 24 significant bits of an f32 (to    *)
(* nearest, ties to even); the exponent range, the rounding of products    *)
(* and quotients and the sign of zero are not modelled (every zero         *)
(* divisor the code can meet is +0).                                       *)
(***************************************************************************)
EXTENDS Integers, Sequences, FiniteSets, TLC

VARIABLES
    \* ---- the scene graph and the driver (layout specification) ----
    world,      \* node id -> its attributes (the entity's components read by the solver)
    alive,      \* the node ids that exist in the store
    window,     \* the window size: the root's content area and limits.max
    store,      \* node id -> [rect, local_position]: the components the solver writes
    status,     \* "running", or "aborted" once a pass has panicked
    passes,     \* number of passes run
    last,       \* what the last pass did (calls, allocations, writes that fired)
    \* ---- one MarginCursor driven on its own (cursor specification) ----
    mc,         \* the MarginCursor's fields
    puts,       \* the put calls made so far: block, state before, returned position
    line,       \* the Rect returned by finish, once finished
    \* ---- one Rect taken through inset and pad (rect specification) ----
    trip        \* the rect and edges chosen, the operations applied, the rect reached

vars == <<world, alive, window, store, status, passes, last, mc, puts, line, trip>>

layoutVars == <<world, alive, window, store, status, passes, last>>
cursorVars == <<mc, puts, line>>

-----------------------------------------------------------------------------
(* f32 arithmetic *)

NaN == <<0, 0>>
PInf == <<1, 0>>
NInf == <<-1, 0>>

Abs(i) == IF i < 0 THEN -i ELSE i
Sign(i) == IF i < 0 THEN -1 ELSE IF i > 0 THEN 1 ELSE 0

RECURSIVE GCD(_, _)
GCD(a, b) == IF b = 0 THEN a ELSE GCD(b, a % b)

\* The rational n/d, d > 0, in lowest terms.
Reduce(n, d, g) == <<n \div g, d \div g>>
Norm(n, d) == Reduce(n, d, GCD(Abs(n), d))

F(i) == <<i, 1>>
Zero == <<0, 1>>
One == <<1, 1>>

IsNaN(a) == a = NaN
IsInf(a) == a[2] = 0 /\ a[1] # 0
IsFinite(a) == a[2] # 0

FNeg(a) == <<-a[1], a[2]>>

RECURSIVE IsPow2(_)
IsPow2(d) == d = 1 \/ (d % 2 = 0 /\ IsPow2(d \div 2))

\* The multiple of p nearest to q * p + r (0 <= r < p), a tie going to the
\* even multiple.
NearestEven(q, r, p) ==
    IF 2 * r > p \/ (2 * r = p /\ q % 2 = 1) THEN (q + 1) * p ELSE q * p

\* m >= 0 rounded to 24 significant bits: p is the power of two that the
\* last bit kept stands for.
RECURSIVE RoundTo(_, _)
RoundTo(m, p) ==
    IF m \div p < 16777216 THEN NearestEven(m \div p, m % p, p) ELSE RoundTo(m, 2 * p)

\* The f32 nearest to the binary fraction a (round to nearest, ties to even,
\* 24 significant bits).
Round(a) ==
    IF Abs(a[1]) < 16777216 \/ ~IsPow2(a[2]) THEN a
    ELSE Norm(Sign(a[1]) * RoundTo(Abs(a[1]), 1), a[2])

\* NaN + x = NaN, inf + (-inf) = NaN, inf + x = inf; a finite sum is rounded
FAdd(a, b) ==
    IF a[2] * b[2] # 0 THEN Round(Norm(a[1] * b[2] + b[1] * a[2], a[2] * b[2]))
    ELSE IF a = NaN \/ b = NaN \/ (a[2] = 0 /\ b[2] = 0 /\ a # b) THEN NaN
    ELSE IF a[2] = 0 THEN a
    ELSE b

FSub(a, b) == FAdd(a, FNeg(b))

\* NaN * x = NaN, 0 * inf = NaN, inf * x = inf of the product's sign
FMul(a, b) ==
    IF a[2] * b[2] # 0 THEN Norm(a[1] * b[1], a[2] * b[2])
    ELSE IF a[1] * b[1] = 0 THEN NaN
    ELSE <<Sign(a[1] * b[1]), 0>>

\* x / NaN = NaN, 0 / 0 = NaN, x / 0 = inf of x's sign, inf / inf = NaN,
\* x / inf = 0, NaN / x = NaN, inf / x = inf of the quotient's sign
FDiv(a, b) ==
    IF b[1] = 0 THEN (IF b[2] = 0 \/ a[1] = 0 THEN NaN ELSE <<Sign(a[1]), 0>>)
    ELSE IF b[2] = 0 THEN (IF a[2] = 0 THEN NaN ELSE Zero)
    ELSE IF a[2] = 0 THEN <<a[1] * Sign(b[1]), 0>>
    ELSE Norm(a[1] * b[2] * Sign(b[1]), a[2] * Abs(b[1]))

\* a < b, false when either is NaN
FLt(a, b) ==
    /\ a # NaN
    /\ b # NaN
    /\ IF a[2] = 0 /\ b[2] = 0 THEN a[1] < b[1] ELSE a[1] * b[2] < b[1] * a[2]

\* f32 ==, false when either is NaN
FEq(a, b) == ~IsNaN(a) /\ ~IsNaN(b) /\ a = b
FLe(a, b) == FLt(a, b) \/ FEq(a, b)

\* f32::max and f32::min: a NaN operand is ignored
FMax(a, b) == IF IsNaN(a) THEN b ELSE IF IsNaN(b) THEN a ELSE IF FLt(a, b) THEN b ELSE a
FMin(a, b) == IF IsNaN(a) THEN b ELSE IF IsNaN(b) THEN a ELSE IF FLt(b, a) THEN b ELSE a

-----------------------------------------------------------------------------
(* glam::Vec2 *)

V(x, y) == [x |-> F(x), y |-> F(y)]
VZero == V(0, 0)
VOne == V(1, 1)
VAdd(a, b) == [x |-> FAdd(a.x, b.x), y |-> FAdd(a.y, b.y)]
VSub(a, b) == [x |-> FSub(a.x, b.x), y |-> FSub(a.y, b.y)]
VMul(a, b) == [x |-> FMul(a.x, b.x), y |-> FMul(a.y, b.y)]
VScale(s, a) == [x |-> FMul(s, a.x), y |-> FMul(s, a.y)]
VNeg(a) == [x |-> FNeg(a.x), y |-> FNeg(a.y)]
VDot(a, b) == FAdd(FMul(a.x, b.x), FMul(a.y, b.y))
VMax(a, b) == [x |-> FMax(a.x, b.x), y |-> FMax(a.y, b.y)]
VMin(a, b) == [x |-> FMin(a.x, b.x), y |-> FMin(a.y, b.y)]
\* Vec2::clamp is self.max(min).min(max)
VClamp(a, lo, hi) == VMin(VMax(a, lo), hi)
\* Vec2 ==
VEq(a, b) == FEq(a.x, b.x) /\ FEq(a.y, b.y)
VLe(a, b) == FLe(a.x, b.x) /\ FLe(a.y, b.y)

-----------------------------------------------------------------------------
(* components.rs: Edges and Rect *)

E(l, r, t, b) == [left |-> F(l), right |-> F(r), top |-> F(t), bottom |-> F(b)]
EZero == E(0, 0, 0, 0)

Edges_size(e) == [x |-> FAdd(e.left, e.right), y |-> FAdd(e.top, e.bottom)]

\* The margins met along a unit axis: <<front, back>>, front on the side the
\* axis points to, back on the side it comes from.
Edges_in_axis(e, ax) ==
    IF FLt(Zero, ax.x) THEN <<e.right, e.left>>
    ELSE IF FLt(ax.x, Zero) THEN <<e.left, e.right>>
    ELSE IF FLt(Zero, ax.y) THEN <<e.bottom, e.top>>
    ELSE <<e.top, e.bottom>>

Rect_from_size_pos(size, pos) == [min |-> pos, max |-> VAdd(pos, size)]
Rect_size(r) == VSub(r.max, r.min)
Rect_pos(r) == r.min

Rect_inset(r, p) ==
    [min |-> VAdd(r.min, [x |-> p.left, y |-> p.top]),
     max |-> VSub(r.max, [x |-> p.right, y |-> p.bottom])]

\* A pad that moves both corners the way inset does.
Rect_pad_inward(r, p) ==
    [min |-> VAdd(r.min, [x |-> p.left, y |-> p.top]),
     max |-> VSub(r.max, [x |-> p.right, y |-> p.bottom])]

Rect_pad(r, p) ==
    [min |-> VSub(r.min, [x |-> p.left, y |-> p.top]),
     max |-> VAdd(r.max, [x |-> p.right, y |-> p.bottom])]

\* clamps the size, keeping min fixed
Rect_clamp(r, lo, hi) ==
    [min |-> r.min, max |-> VAdd(r.min, VClamp(Rect_size(r), lo, hi))]

Rect_from_two_points(a, b) == [min |-> VMin(a, b), max |-> VMax(a, b)]

\* The rect's edge along a unit axis, measured in the axis' direction.
Rect_support(r, ax) ==
    IF FLt(Zero, ax.x) THEN r.max.x
    ELSE IF FLt(ax.x, Zero) THEN FNeg(r.min.x)
    ELSE IF FLt(Zero, ax.y) THEN r.max.y
    ELSE FNeg(r.min.y)

RectEq(a, b) == VEq(a.min, b.min) /\ VEq(a.max, b.max)

-----------------------------------------------------------------------------
(* layout.rs: Direction, CrossAlign, Block, MarginCursor *)

Directions == {"Horizontal", "Vertical", "HorizontalReverse", "VerticalReverse"}
CrossAligns == {"Start", "Center", "End", "Stretch"}

VX == V(1, 0)
VY == V(0, 1)

\* <<axis, cross_axis>>
Direction_axis(d) ==
    CASE d = "Horizontal" -> <<VX, VY>>
      [] d = "Vertical" -> <<VY, VX>>
      [] d = "HorizontalReverse" -> <<VNeg(VX), VY>>
      [] d = "VerticalReverse" -> <<VNeg(VY), VX>>

align_offset(a, total_size, size) ==
    CASE a = "Start" -> Zero
      [] a = "Center" -> FDiv(FSub(total_size, size), F(2))
      [] a = "End" -> FSub(total_size, size)
      [] a = "Stretch" -> Zero

Block_new(rect, margin) == [rect |-> rect, margin |-> margin]

MarginCursor_new(start, ax, cross) ==
    [pending_margin |-> Zero, start |-> start, cursor |-> start,
     line_height |-> Zero, axis |-> ax, cross_axis |-> cross]

\* A non-collapsing advance: the two margins simply add up.
advance_sum(pending, back) == FAdd(pending, back)

\* An advance that may come out negative: the final max(0.0) is left out.
advance_unclamped(pending, back) ==
    FAdd(FAdd(FMax(FMax(pending, Zero), FMax(back, Zero)), FMin(pending, Zero)),
         FMin(back, Zero))

\* The advance between two blocks (layout.rs 35-38).
advance(pending, back) ==
    FMax(FAdd(FAdd(FMax(FMax(pending, Zero), FMax(back, Zero)),
                   FMin(pending, Zero)),
              FMin(back, Zero)),
         Zero)

\* A put that leaves the cursor at the near edge of the block it placed.
put_noextent(c, block) ==
    LET fb == Edges_in_axis(block.margin, c.axis)
        adv == advance(c.pending_margin, fb[2])
        cur1 == VAdd(c.cursor,
                     VAdd(VScale(adv, c.axis),
                          VScale(Rect_support(block.rect, VNeg(c.axis)), c.axis)))
        se == Edges_in_axis(block.margin, c.cross_axis)
        pos == VAdd(cur1, VScale(se[1], c.cross_axis))
        lh == FMax(c.line_height,
                   FAdd(FAdd(VDot(Rect_size(block.rect), c.cross_axis), se[1]), se[2]))
    IN  <<[c EXCEPT !.pending_margin = fb[1], !.cursor = cur1, !.line_height = lh], pos>>

\* MarginCursor::put from line 44 on, the cursor having reached the near
\* edge of the block (cur1) and front_margin being the block's margin ahead.
put_at(c, block, front_margin, se, cur1) ==
    <<[c EXCEPT !.pending_margin = front_margin,
                !.cursor = VAdd(cur1, VScale(Rect_support(block.rect, c.axis), c.axis)),
                !.line_height =
                    FMax(c.line_height,
                         FAdd(FAdd(VDot(Rect_size(block.rect), c.cross_axis), se[1]), se[2]))],
      VAdd(cur1, VScale(se[1], c.cross_axis))>>

\* MarginCursor::put: <<the cursor afterwards, the returned position>>
put(c, block) ==
    LET fb == Edges_in_axis(block.margin, c.axis)
        adv == advance(c.pending_margin, fb[2])
    IN  put_at(c, block, fb[1], Edges_in_axis(block.margin, c.cross_axis),
               VAdd(c.cursor,
                    VAdd(VScale(adv, c.axis),
                         VScale(Rect_support(block.rect, VNeg(c.axis)), c.axis))))

\* A finish that drops the pending trailing margin.
finish_noflush(c) ==
    LET cur1 == VAdd(c.cursor, VScale(c.line_height, c.cross_axis))
        ln == Rect_from_two_points(c.start, cur1)
    IN  <<[c EXCEPT !.cursor = cur1, !.pending_margin = Zero,
                    !.start = VAdd(VAdd(VMul(c.start, c.axis), cur1), c.cross_axis)],
          ln>>

\* MarginCursor::finish from line 62 on, the cursor having moved to cur2.
finish_at(c, cur2) ==
    <<[c EXCEPT !.cursor = cur2, !.pending_margin = Zero,
                !.start = VAdd(VAdd(VMul(c.start, c.axis), cur2), c.cross_axis)],
      Rect_from_two_points(c.start, cur2)>>

\* MarginCursor::finish: <<the cursor afterwards, the bounding rect>>
finish(c) ==
    finish_at(c, VAdd(VAdd(c.cursor, VScale(c.line_height, c.cross_axis)),
                      VScale(c.pending_margin, c.axis)))

-----------------------------------------------------------------------------
(* The scene graph: what the solver reads of an entity *)

\* A length: an absolute part and a part relative to the parent's extent.
Unit(px, rel) == [px |-> px, rel |-> rel]
UPx(x, y) == Unit(V(x, y), VZero)
Unit_ZERO == Unit(VZero, VZero)
Unit_resolve(u, parent_size) == VAdd(u.px, VMul(u.rel, parent_size))

\* kind "flow": the entity has a layout; "stack": it has children and no
\* layout; "leaf": neither.  An absent component reads as its default.
Node(kind, direction, cross_align, margin, padding, size, min_size, offset, anchor) ==
    [kind |-> kind, direction |-> direction, cross_align |-> cross_align,
     margin |-> margin, padding |-> padding, size |-> size, min_size |-> min_size,
     offset |-> offset, anchor |-> anchor, children |-> <<>>]

Leaf(size, min_size, margin, offset, anchor) ==
    Node("leaf", "Horizontal", "Start", margin, EZero, size, min_size, offset, anchor)
Flow(direction, cross_align, padding, margin) ==
    Node("flow", direction, cross_align, margin, padding,
         Unit_ZERO, Unit_ZERO, Unit_ZERO, Unit_ZERO)
Stack(padding, margin) ==
    Node("stack", "Horizontal", "Start", margin, padding,
         Unit_ZERO, Unit_ZERO, Unit_ZERO, Unit_ZERO)

Root == 0

\* Bounds of the model
MaxNodes == 3
MaxPasses == 2
MaxPuts == 2

Pad == E(10, 10, 5, 5)

LeafPresets ==
    { Leaf(UPx(0, 50), Unit_ZERO, EZero, Unit_ZERO, Unit_ZERO),
      Leaf(UPx(100, 50), Unit_ZERO, EZero, Unit_ZERO, Unit_ZERO),
      Leaf(UPx(50, 80), Unit_ZERO, EZero, Unit_ZERO, Unit_ZERO),
      Leaf(UPx(20, 20), Unit_ZERO, E(10, 10, 0, 0), Unit_ZERO, Unit_ZERO),
      Leaf(UPx(50, 20), UPx(30, 40), E(5, -2, 3, -50), Unit_ZERO, Unit_ZERO),
      Leaf(Unit(V(0, 30), V(1, 0)), Unit_ZERO, EZero, UPx(4, 6), Unit(V(0, 2), V(1, 0))) }

InnerContainerPresets ==
    { Flow("Horizontal", "Stretch", Pad, E(10, 10, 0, 0)),
      Flow("Horizontal", "Start", EZero, EZero),
      Flow("VerticalReverse", "Center", EZero, EZero),
      Stack(Pad, EZero) }

RootPresets ==
    { Flow("Horizontal", a, EZero, EZero) : a \in CrossAligns }
        \cup { Flow("Vertical", "Center", EZero, EZero),
               Flow("HorizontalReverse", "End", EZero, EZero),
               Flow("VerticalReverse", "Stretch", EZero, EZero),
               Flow("Horizontal", "Stretch", Pad, EZero),
               Stack(EZero, EZero), Stack(Pad, EZero) }

\* What a node without children may be: a leaf, or a flow container of none.
ChildlessPresets == LeafPresets \cup { Flow("Horizontal", "Stretch", Pad, E(10, 10, 0, 0)) }

Windows == { V(300, 100), V(20, 10) }

\* The children of n under the parent vector par, in id order.
RECURSIVE ChildSeq(_, _, _, _)
ChildSeq(par, n, i, k) ==
    IF i >= k THEN <<>>
    ELSE IF par[i] = n THEN <<i>> \o ChildSeq(par, n, i + 1, k)
    ELSE ChildSeq(par, n, i + 1, k)

\* The parent vectors of the trees on nodes 0..k-1 (a parent has a smaller id).
Shapes(k) == { par \in [1..(k - 1) -> 0..(k - 1)] : \A i \in 1..(k - 1) : par[i] < i }

HasKids(par, n, k) == \E i \in 1..(k - 1) : par[i] = n

PresetsFor(par, n, k) ==
    IF n = Root THEN { p \in RootPresets : p.kind = "stack" => HasKids(par, n, k) }
    ELSE IF HasKids(par, n, k) THEN InnerContainerPresets
    ELSE ChildlessPresets

-----------------------------------------------------------------------------
(* layout.rs: resolve_size, resolve_pos, the sizing query *)

LayoutLimits(lo, hi) == [min |-> lo, max |-> hi]

\* <<min_size, size>>
resolve_size(e, content_area) ==
    LET parent_size == Rect_size(content_area)
        min_size == Unit_resolve(world[e].min_size, parent_size)
        size == VMax(Unit_resolve(world[e].size, parent_size), min_size)
    IN  <<min_size, size>>

resolve_pos(e, content_area, self_size) ==
    LET offset == Unit_resolve(world[e].offset, Rect_size(content_area))
    IN  VSub(VAdd(Rect_pos(content_area), offset), Unit_resolve(world[e].anchor, self_size))

ZeroRect == [min |-> VZero, max |-> VZero]
NoQuery == [panic |-> TRUE, min |-> ZeroRect, preferred |-> ZeroRect, margin |-> EZero]

NoQueries == [panic |-> TRUE, min |-> ZeroRect, preferred |-> ZeroRect, blocks |-> <<>>]

RECURSIVE query_size(_, _)
RECURSIVE Layout_query_size_from(_, _, _, _, _, _)

\* Layout::query_size, the map over the children (263-275), for child i
\* once its own query is answered: both cursors take the child's block.
Layout_query_size_put(kids, i, content_area, min_cursor, preferred_cursor, acc, query) ==
    IF query.panic THEN NoQueries
    ELSE Layout_query_size_from(
             kids, i + 1, content_area,
             put(min_cursor, Block_new(query.min, query.margin))[1],
             put(preferred_cursor, Block_new(query.preferred, query.margin))[1],
             Append(acc, [entity |-> kids[i], query |-> query]))

\* A sizing query that skips a child that is not in the store.
Layout_query_size_skip(kids, i, content_area, min_cursor, preferred_cursor, acc) ==
    IF i > Len(kids)
    THEN [panic |-> FALSE, min |-> finish(min_cursor)[2],
          preferred |-> finish(preferred_cursor)[2], blocks |-> acc]
    ELSE IF kids[i] \notin alive
    THEN Layout_query_size_from(kids, i + 1, content_area, min_cursor, preferred_cursor, acc)
    ELSE Layout_query_size_put(kids, i, content_area, min_cursor, preferred_cursor, acc,
                               query_size(kids[i], content_area))

\* Layout::query_size, from child i on (the map over the children and the
\* two finish calls, 263-277): world.entity(child).expect("Invalid child").
Layout_query_size_from(kids, i, content_area, min_cursor, preferred_cursor, acc) ==
    IF i > Len(kids)
    THEN [panic |-> FALSE, min |-> finish(min_cursor)[2],
          preferred |-> finish(preferred_cursor)[2], blocks |-> acc]
    ELSE IF kids[i] \notin alive THEN NoQueries
    ELSE Layout_query_size_put(kids, i, content_area, min_cursor, preferred_cursor, acc,
                               query_size(kids[i], content_area))

\* Layout::query_size: [panic, min, preferred, blocks]
Layout_query_size(e, inner_rect) ==
    LET ax == Direction_axis(world[e].direction)
    IN  Layout_query_size_from(world[e].children, 1,
                               [min |-> VZero, max |-> Rect_size(inner_rect)],
                               MarginCursor_new(VZero, ax[1], ax[2]),
                               MarginCursor_new(VZero, ax[1], ax[2]), <<>>)

\* query_size, flow branch (304-315), the layout's query being q
query_size_flow(e, q) ==
    IF q.panic THEN NoQuery
    ELSE [panic |-> FALSE, min |-> Rect_pad(q.min, world[e].padding),
          preferred |-> Rect_pad(q.preferred, world[e].padding),
          margin |-> world[e].margin]

\* query_size, leaf branch (318-331), ms being <<min_size, preferred_size>>
query_size_leaf(e, content_area, ms) ==
    [panic |-> FALSE,
     min |-> Rect_from_size_pos(ms[1], resolve_pos(e, content_area, ms[1])),
     preferred |-> Rect_from_size_pos(ms[2], resolve_pos(e, content_area, ms[2])),
     margin |-> world[e].margin]

\* query_size: the stacking branch is todo!()
query_size(e, content_area) ==
    IF world[e].kind = "flow"
    THEN query_size_flow(e, Layout_query_size(e, Rect_inset(content_area, world[e].padding)))
    ELSE IF world[e].kind = "stack" THEN NoQuery
    ELSE query_size_leaf(e, content_area, resolve_size(e, content_area))

-----------------------------------------------------------------------------
(* layout.rs: Layout::apply and update_subtree *)

\* What a (partial) pass has done so far:
\*   writes: the update_dedup calls, in order;
\*   calls:  the update_subtree calls that returned, with their result;
\*   allocs: Layout::apply's axis allocation of each child;
\*   places: Layout::apply's placement of each child.
EmptyLog == [writes |-> <<>>, calls |-> <<>>, allocs |-> <<>>, places |-> <<>>]
LogCat(a, b) ==
    [writes |-> a.writes \o b.writes, calls |-> a.calls \o b.calls,
     allocs |-> a.allocs \o b.allocs, places |-> a.places \o b.places]

WriteRect(e, r) == [entity |-> e, comp |-> "rect", rect |-> r, pos |-> VZero]
WritePos(e, p) == [entity |-> e, comp |-> "local_position", rect |-> ZeroRect, pos |-> p]

NoBlock == Block_new(ZeroRect, EZero)
Unwound(log) == [panic |-> TRUE, block |-> NoBlock, log |-> log]

\* An equal share for every child, whatever its stretchiness.
axis_sizing_equal(min_size, preferred_size, total_preferred_size, max_axis) ==
    FAdd(min_size, max_axis)

\* The extent a child may take along the axis (layout.rs 167-172, before "* axis").
axis_sizing(min_size, preferred_size, total_preferred_size, max_axis) ==
    FAdd(min_size,
         FMul(max_axis, FDiv(FSub(preferred_size, min_size), total_preferred_size)))

\* Stretch that forgets the child's own margin.
child_constraints_nomargin(cross_align, margin, inner_rect, constraints, cross_axis, sizing) ==
    IF cross_align = "Stretch"
    THEN LET size == VMin(Rect_size(inner_rect), constraints.max)
         IN  LayoutLimits(VMul(size, cross_axis), VAdd(VMul(size, cross_axis), sizing))
    ELSE LayoutLimits(VZero, VAdd(VMul(constraints.max, cross_axis), sizing))

\* The limits Layout::apply hands to a child (layout.rs 177-190).
child_constraints(cross_align, margin, inner_rect, constraints, cross_axis, sizing) ==
    IF cross_align = "Stretch"
    THEN LET size == VSub(VMin(Rect_size(inner_rect), constraints.max), Edges_size(margin))
         IN  LayoutLimits(VMul(size, cross_axis), VAdd(VMul(size, cross_axis), sizing))
    ELSE LayoutLimits(VZero, VAdd(VMul(constraints.max, cross_axis), sizing))

\* Layout::apply, 167-190: what a child is allocated along the axis and the
\* limits it is given.
\* ctx: [e, inner_rect, constraints, total_preferred_size, axis, cross_axis]
allocation_limits(ctx, child, min_size, preferred_size, max_axis, alloc) ==
    [parent |-> ctx.e, child |-> child, min_size |-> min_size,
     preferred_size |-> preferred_size,
     total_preferred_size |-> ctx.total_preferred_size,
     max_axis |-> max_axis, alloc |-> alloc,
     limits |-> child_constraints(world[ctx.e].cross_align, world[child].margin,
                                  ctx.inner_rect, ctx.constraints, ctx.cross_axis,
                                  VScale(alloc, ctx.axis))]
allocation_sized(ctx, child, min_size, preferred_size, max_axis) ==
    allocation_limits(ctx, child, min_size, preferred_size, max_axis,
                      axis_sizing(min_size, preferred_size, ctx.total_preferred_size,
                                  max_axis))
allocation(ctx, child, query) ==
    allocation_sized(ctx, child, VDot(Rect_size(query.min), ctx.axis),
                     VDot(Rect_size(query.preferred), ctx.axis),
                     VDot(ctx.constraints.max, ctx.axis))

RECURSIVE update_subtree(_, _, _)
RECURSIVE Layout_apply_children(_, _, _, _, _, _)
RECURSIVE Layout_apply_place(_, _, _, _, _, _)
RECURSIVE update_stack_children(_, _, _, _, _)

\* Layout::apply, first loop, 201-203: the updated child is put on the cursor.
Layout_apply_put(ctx, queries, i, cursor, blocks, log, res) ==
    IF res.panic
    THEN [panic |-> TRUE, cursor |-> cursor, blocks |-> blocks, log |-> LogCat(log, res.log)]
    ELSE Layout_apply_children(
             ctx, queries, i + 1, put(cursor, res.block)[1],
             Append(blocks, [entity |-> queries[i].entity, block |-> res.block]),
             LogCat(log, res.log))

\* Layout::apply, first loop, 193-199: the child is updated within its limits.
Layout_apply_child(ctx, queries, i, cursor, blocks, log, rec) ==
    Layout_apply_put(ctx, queries, i, cursor, blocks,
                     [log EXCEPT !.allocs = Append(@, rec)],
                     update_subtree(rec.child,
                                    [min |-> VZero, max |-> Rect_size(ctx.inner_rect)],
                                    rec.limits))

\* Layout::apply, first loop (163-205), from child i on: every child is
\* given its limits, updated and put on the cursor.
\* Returns [panic, cursor, blocks, log].
Layout_apply_children(ctx, queries, i, cursor, blocks, log) ==
    IF i > Len(queries)
    THEN [panic |-> FALSE, cursor |-> cursor, blocks |-> blocks, log |-> log]
    ELSE Layout_apply_child(ctx, queries, i, cursor, blocks, log,
                            allocation(ctx, queries[i].entity, queries[i].query))

\* The position written for a child, with the alignment offset left out.
place_noalign(cross_align, cross_axis, placed, line_cross, height) == placed

\* The position written for a child (layout.rs 224-228).
place(cross_align, cross_axis, placed, line_cross, height) ==
    VAdd(placed, VScale(align_offset(cross_align, line_cross, height), cross_axis))

\* Layout::apply, second loop, 222-228: where a block put at placed is written.
placement(e, entry, placed, line_cross, cross_axis, height) ==
    [parent |-> e, child |-> entry.entity, placed |-> placed,
     pos |-> place(world[e].cross_align, cross_axis, placed, line_cross, height),
     line_cross |-> line_cross, height |-> height, block |-> entry.block]

\* Layout::apply, second loop, 230-231: the two update_dedup calls.
Layout_apply_write(e, blocks, i, cursor, line_size, log, rec) ==
    Layout_apply_place(e, blocks, i + 1, cursor, line_size,
                       [log EXCEPT !.writes = @ \o <<WriteRect(rec.child, rec.block.rect),
                                                      WritePos(rec.child, rec.pos)>>,
                                   !.places = Append(@, rec)])

\* Layout::apply, second loop, 222-228, p being what cursor.put returned.
Layout_apply_placed(e, blocks, i, line_size, log, cross_axis, p) ==
    Layout_apply_write(e, blocks, i, p[1], line_size, log,
                       placement(e, blocks[i], p[2], VDot(line_size, cross_axis), cross_axis,
                                 VDot(VAdd(Rect_size(blocks[i].block.rect),
                                           Edges_size(blocks[i].block.margin)),
                                      cross_axis)))

\* Layout::apply, second loop (220-232), from child i on: every block is put
\* on a fresh cursor, aligned and written.  Returns [cursor, log].
Layout_apply_place(e, blocks, i, cursor, line_size, log) ==
    IF i > Len(blocks) THEN [cursor |-> cursor, log |-> log]
    ELSE Layout_apply_placed(e, blocks, i, line_size, log, cursor.cross_axis,
                             put(cursor, blocks[i].block))

\* Where the placing cursor starts (layout.rs 211-216).
Layout_start(direction, inner_rect) ==
    CASE direction = "Horizontal" -> inner_rect.min
      [] direction = "Vertical" -> inner_rect.min
      [] direction = "HorizontalReverse" -> [x |-> inner_rect.max.x, y |-> inner_rect.min.y]
      [] direction = "VerticalReverse" -> [x |-> inner_rect.min.x, y |-> inner_rect.max.y]

\* Layout::apply, 234: the bounding rect of the placed line.
Layout_apply_finish(second) ==
    [panic |-> FALSE, rect |-> finish(second.cursor)[2], log |-> second.log]

\* Layout::apply, 207-232, first being the outcome of the first loop.
Layout_apply_line(e, inner_rect, ax, first) ==
    IF first.panic THEN [panic |-> TRUE, rect |-> ZeroRect, log |-> first.log]
    ELSE Layout_apply_finish(
             Layout_apply_place(e, first.blocks, 1,
                                MarginCursor_new(Layout_start(world[e].direction, inner_rect),
                                                 ax[1], ax[2]),
                                Rect_size(finish(first.cursor)[2]), first.log))

\* Layout::apply, 138-205, q being the outcome of the sizing query.
Layout_apply_queried(e, inner_rect, constraints, ax, q) ==
    IF q.panic THEN [panic |-> TRUE, rect |-> ZeroRect, log |-> EmptyLog]
    ELSE Layout_apply_line(
             e, inner_rect, ax,
             Layout_apply_children(
                 [e |-> e, inner_rect |-> inner_rect, constraints |-> constraints,
                  total_preferred_size |-> VDot(Rect_size(q.preferred), ax[1]),
                  axis |-> ax[1], cross_axis |-> ax[2]],
                 q.blocks, 1, MarginCursor_new(VZero, ax[1], ax[2]), <<>>, EmptyLog))

\* Layout::apply: [panic, rect, log]
Layout_apply(e, content_area, constraints) ==
    Layout_apply_queried(e, content_area, constraints, Direction_axis(world[e].direction),
                         Layout_query_size(e, content_area))

\* update_subtree, stack branch, 433-435: the child is updated and its rect
\* written.
update_stack_child(e, i, content_area, limits, log, res) ==
    IF res.panic THEN [panic |-> TRUE, log |-> LogCat(log, res.log)]
    ELSE update_stack_children(
             e, i + 1, content_area, limits,
             [LogCat(log, res.log) EXCEPT
                  !.writes = Append(@, WriteRect(world[e].children[i], res.block.rect))])

\* update_subtree, the loop of the stacking branch (409-436), from child i on:
\* [panic, log]
update_stack_children(e, i, content_area, limits, log) ==
    LET kids == world[e].children
        constraints == LayoutLimits(VZero, VSub(limits.max, Edges_size(world[e].padding)))
        inner == Rect_inset([min |-> VZero, max |-> Rect_size(content_area)],
                            world[e].padding)
    IN  IF i > Len(kids) THEN [panic |-> FALSE, log |-> log]
        ELSE IF kids[i] \notin alive THEN [panic |-> TRUE, log |-> log]
        ELSE IF ~VEq(Rect_size(content_area), limits.max) THEN [panic |-> TRUE, log |-> log]
        ELSE IF ~VEq(Rect_size(inner), constraints.max) THEN [panic |-> TRUE, log |-> log]
        ELSE update_stack_child(e, i, content_area, limits, log,
                                update_subtree(kids[i], inner, constraints))

\* A leaf that takes its preferred size, whatever the limits.
leaf_size_unclamped(e, content_area, limits) == resolve_size(e, content_area)[2]

\* A leaf that adds what the store holds for it to its resolved size.
leaf_size_stored(e, content_area, limits) ==
    VClamp(VAdd(resolve_size(e, content_area)[2], Rect_size(store[e].rect)),
           limits.min, limits.max)

\* The size of a leaf (layout.rs 442-444).
leaf_size(e, content_area, limits) ==
    VClamp(resolve_size(e, content_area)[2], limits.min, limits.max)

\* update_subtree returns block.
Returned(e, content_area, limits, block, log) ==
    [panic |-> FALSE, block |-> block,
     log |-> [log EXCEPT !.calls =
                  Append(@, [node |-> e, content_area |-> content_area,
                             limits |-> limits, rect |-> block.rect])]]

\* update_subtree, flow branch, 397-400, r being what Layout::apply returned
update_flow(e, content_area, limits, r) ==
    IF r.panic THEN Unwound(r.log)
    ELSE Returned(e, content_area, limits,
                  Block_new(Rect_clamp(Rect_pad(r.rect, world[e].padding),
                                       limits.min, limits.max),
                            world[e].margin),
                  r.log)

\* update_subtree, stack branch, 404-407 and 437-440, r being the child loop's outcome
update_stack(e, content_area, limits, r) ==
    IF r.panic THEN Unwound(r.log)
    ELSE Returned(e, content_area, limits,
                  Block_new([min |-> VZero, max |-> VOne], world[e].margin), r.log)

\* update_subtree, leaf branch, 446-451, size being the clamped size
update_leaf(e, content_area, limits, size) ==
    Returned(e, content_area, limits,
             Block_new(Rect_from_size_pos(size, resolve_pos(e, content_area, size)),
                       world[e].margin),
             EmptyLog)

\* update_subtree: [panic, block, log]
update_subtree(e, content_area, limits) ==
    IF world[e].kind = "flow"
    THEN update_flow(e, content_area, limits,
                     Layout_apply(e, Rect_inset(content_area, world[e].padding),
                                  LayoutLimits(limits.min,
                                               VSub(limits.max,
                                                    Edges_size(world[e].padding)))))
    ELSE IF world[e].kind = "stack"
    THEN update_stack(e, content_area, limits,
                      update_stack_children(e, 1, content_area, limits, EmptyLog))
    ELSE update_leaf(e, content_area, limits, leaf_size(e, content_area, limits))

-----------------------------------------------------------------------------
(* The driver and the store *)

\* update_dedup: the component is written when the new value differs (==).
RECURSIVE ApplyWrites(_, _, _, _)
ApplyWrites(st, ws, i, fired) ==
    IF i > Len(ws) THEN [store |-> st, fired |-> fired]
    ELSE LET w == ws[i]
             same == IF w.comp = "rect" THEN RectEq(st[w.entity].rect, w.rect)
                     ELSE VEq(st[w.entity].local_position, w.pos)
         IN  IF same THEN ApplyWrites(st, ws, i + 1, fired)
             ELSE ApplyWrites(
                      IF w.comp = "rect" THEN [st EXCEPT ![w.entity].rect = w.rect]
                      ELSE [st EXCEPT ![w.entity].local_position = w.pos],
                      ws, i + 1, Append(fired, w))

NoLine == [done |-> FALSE, rect |-> ZeroRect, before |-> MarginCursor_new(VZero, VX, VY)]

NoTrip == [rect |-> ZeroRect, edges |-> EZero, ops |-> <<>>, now |-> ZeroRect]

NoPass ==
    [ran |-> FALSE, panic |-> FALSE, block |-> NoBlock, log |-> EmptyLog,
     fired |-> <<>>, repeat |-> FALSE, same |-> FALSE]

Init ==
    /\ \E k \in 1..MaxNodes :
        \E par \in Shapes(k) :
            \E presets \in [0..(k - 1) -> RootPresets \cup InnerContainerPresets \cup LeafPresets] :
                /\ \A n \in 0..(k - 1) : presets[n] \in PresetsFor(par, n, k)
                /\ world = [n \in 0..(k - 1) |->
                               [presets[n] EXCEPT !.children = ChildSeq(par, n, 1, k)]]
                \* every entity is in the store, or one has been despawned while
                \* its parent still lists it
                /\ \E gone \in {{}} \cup {{n} : n \in 1..(k - 1)} : alive = (0..(k - 1)) \ gone
    /\ window \in Windows
    /\ store = [n \in DOMAIN world |-> [rect |-> ZeroRect, local_position |-> VZero]]
    /\ status = "running"
    /\ passes = 0
    /\ last = NoPass
    /\ mc = MarginCursor_new(VZero, VX, VY)
    /\ puts = <<>>
    /\ line = NoLine
    /\ trip = NoTrip

\* The outcome r of a pass is recorded and its writes w reach the store.
Written(r, w) ==
    /\ store' = w.store
    /\ status' = IF r.panic THEN "aborted" ELSE "running"
    /\ last' = [ran |-> TRUE, panic |-> r.panic, block |-> r.block, log |-> r.log,
                fired |-> w.fired,
                \* this pass follows a pass with nothing changed in between
                repeat |-> last.ran /\ ~last.panic,
                \* and returned and computed what that pass did
                same |-> last.block = r.block /\ last.log.writes = r.log.writes]

Ran(r) == Written(r, ApplyWrites(store, r.log.writes, 1, <<>>))

\* The driver: one pass at the root, over the window.
LayoutPass ==
    /\ status = "running"
    /\ passes < MaxPasses
    /\ Ran(update_subtree(Root, [min |-> VZero, max |-> window], LayoutLimits(VZero, window)))
    /\ passes' = passes + 1
    /\ UNCHANGED <<world, alive, window, mc, puts, line, trip>>

\* The window is resized between two passes.
Resize ==
    /\ status = "running"
    /\ \E w \in Windows \ {window} : window' = w
    /\ last' = NoPass
    /\ UNCHANGED <<world, alive, store, status, passes, mc, puts, line, trip>>

Next == LayoutPass \/ Resize

Spec == Init /\ [][Next]_vars

-----------------------------------------------------------------------------
(* One MarginCursor on its own: new, a run of put calls, finish *)

CursorStarts == { VZero, V(7, 3) }

BlockRects ==
    { Rect_from_size_pos(V(0, 0), VZero), Rect_from_size_pos(V(20, 20), VZero),
      Rect_from_size_pos(V(100, 50), VZero), Rect_from_size_pos(V(20, 20), V(4, 6)) }

BlockMargins ==
    { EZero, E(10, 10, 0, 0), E(4, 7, 2, 0), E(5, -2, 3, -50), E(-2, -5, 1, 1) }

InitCursor ==
    /\ world = [n \in {Root} |-> Leaf(Unit_ZERO, Unit_ZERO, EZero, Unit_ZERO, Unit_ZERO)]
    /\ alive = {Root}
    /\ window = V(300, 100)
    /\ store = [n \in DOMAIN world |-> [rect |-> ZeroRect, local_position |-> VZero]]
    /\ status = "running"
    /\ passes = 0
    /\ last = NoPass
    /\ \E d \in Directions, start \in CursorStarts :
           mc = MarginCursor_new(start, Direction_axis(d)[1], Direction_axis(d)[2])
    /\ puts = <<>>
    /\ line = NoLine
    /\ trip = NoTrip

CursorPut ==
    /\ ~line.done
    /\ Len(puts) < MaxPuts
    /\ \E r \in BlockRects, m \in BlockMargins :
           LET block == Block_new(r, m)
               p == put(mc, block)
           IN  /\ mc' = p[1]
               /\ puts' = Append(puts, [block |-> block, before |-> mc, pos |-> p[2]])
    /\ UNCHANGED <<layoutVars, line, trip>>

CursorFinish ==
    /\ ~line.done
    /\ LET f == finish(mc)
       IN  /\ mc' = f[1]
           /\ line' = [done |-> TRUE, rect |-> f[2], before |-> mc]
    /\ UNCHANGED <<layoutVars, puts, trip>>

NextCursor == CursorPut \/ CursorFinish

CursorSpec == InitCursor /\ [][NextCursor]_vars

-----------------------------------------------------------------------------
(* One Rect on its own: a run of inset and pad calls with the same Edges *)

MaxOps == 2

\* Rects of positive, zero and negative size, at fractional coordinates, at
\* coordinates where consecutive f32 values are 2 apart, and unbounded.
TripRects ==
    { [min |-> V(0, 0), max |-> V(100, 50)],
      [min |-> V(10, 10), max |-> V(4, 2)],
      [min |-> V(7, 3), max |-> V(7, 3)],
      [min |-> [x |-> <<1, 2>>, y |-> <<-3, 4>>], max |-> [x |-> <<5, 2>>, y |-> <<1, 8>>]],
      [min |-> V(16777216, 0), max |-> V(16777220, 8)],
      [min |-> V(0, 0), max |-> [x |-> PInf, y |-> F(100)]] }

TripEdges ==
    { EZero, E(10, 10, 5, 5), E(-3, -4, 1, 2), E(1, 1, 1, 1), E(2, 2, 2, 2),
      [left |-> <<1, 4>>, right |-> <<3, 8>>, top |-> F(0), bottom |-> <<-1, 2>>],
      [left |-> PInf, right |-> F(0), top |-> F(0), bottom |-> F(0)] }

InitRect ==
    /\ world = [n \in {Root} |-> Leaf(Unit_ZERO, Unit_ZERO, EZero, Unit_ZERO, Unit_ZERO)]
    /\ alive = {Root}
    /\ window = V(300, 100)
    /\ store = [n \in DOMAIN world |-> [rect |-> ZeroRect, local_position |-> VZero]]
    /\ status = "running"
    /\ passes = 0
    /\ last = NoPass
    /\ mc = MarginCursor_new(VZero, VX, VY)
    /\ puts = <<>>
    /\ line = NoLine
    /\ \E r \in TripRects, e \in TripEdges :
           trip = [rect |-> r, edges |-> e, ops |-> <<>>, now |-> r]

RectInset ==
    /\ Len(trip.ops) < MaxOps
    /\ trip' = [trip EXCEPT !.ops = Append(@, "inset"), !.now = Rect_inset(@, trip.edges)]
    /\ UNCHANGED <<layoutVars, cursorVars>>

RectPad ==
    /\ Len(trip.ops) < MaxOps
    /\ trip' = [trip EXCEPT !.ops = Append(@, "pad"), !.now = Rect_pad(@, trip.edges)]
    /\ UNCHANGED <<layoutVars, cursorVars>>

NextRect == RectInset \/ RectPad

RectSpec == InitRect /\ [][NextRect]_vars

-----------------------------------------------------------------------------
(* Claims *)

Calls == last.log.calls
Allocs == last.log.allocs
Places == last.log.places
Completed == last.ran /\ ~last.panic
WellFormed == alive = DOMAIN world

Within(size, limits) == VLe(limits.min, size) /\ VLe(size, limits.max)

\* C1: clamp containment: whenever update_subtree is called with
\* limits.min <= limits.max, the size of the rect it returns lies within
\* [limits.min, limits.max], whatever the kind of the node.
C1_ClampContainment ==
    \A i \in 1..Len(Calls) :
        VLe(Calls[i].limits.min, Calls[i].limits.max)
            => Within(Rect_size(Calls[i].rect), Calls[i].limits)

\* The along-axis coordinate of a point, growing in the direction of travel.
Along(c, pt) == VDot(pt, c.axis)
\* Where the placed block i of the cursor run ends and begins along the axis.
FarEdge(i) ==
    FAdd(Along(puts[i].before, puts[i].pos),
         Rect_support(puts[i].block.rect, puts[i].before.axis))
NearEdge(i) ==
    FSub(Along(puts[i].before, puts[i].pos),
         Rect_support(puts[i].block.rect, VNeg(puts[i].before.axis)))
Gap(i) == FSub(NearEdge(i), FarEdge(i - 1))
\* The margin carried from block i - 1 and the facing margin of block i.
Pending(i) == IF i = 1 THEN Zero
              ELSE Edges_in_axis(puts[i - 1].block.margin, puts[i].before.axis)[1]
Back(i) == Edges_in_axis(puts[i].block.margin, puts[i].before.axis)[2]
Collapse(m1, m2) ==
    FMax(FAdd(FAdd(FMax(FMax(m1, Zero), FMax(m2, Zero)), FMin(m1, Zero)), FMin(m2, Zero)),
         Zero)

\* C2: margin collapsing: the gap put leaves between two consecutive blocks
\* is max(max(max(pending,0), max(back,0)) + min(pending,0) + min(back,0), 0):
\* max(m1, m2) for non-negative margins, 3 for -2 and 5, 0 for -5 and -2.
C2_MarginCollapse ==
    \A i \in 2..Len(puts) :
        /\ Gap(i) = Collapse(Pending(i), Back(i))
        /\ (FLe(Zero, Pending(i)) /\ FLe(Zero, Back(i)))
               => Gap(i) = FMax(Pending(i), Back(i))
        /\ (Pending(i) = F(-2) /\ Back(i) = F(5)) => Gap(i) = F(3)
        /\ (Pending(i) = F(-5) /\ Back(i) = F(-2)) => Gap(i) = F(0)

C2_Witness ==
    /\ Len(puts) = 2
    /\ Pending(2) = F(-2)
    /\ Back(2) = F(5)
    /\ Gap(2) = F(3)

\* C3: a pass over a well-formed tree (acyclic, no dangling child), with the
\* three kinds of node nested in any combination, runs to completion: it
\* returns a Block and does not abort.
C3_PassCompletes == (last.ran /\ WellFormed) => ~last.panic

C5_ZeroTotalFallback ==
    \A i \in 1..Len(Allocs) :
        FEq(Allocs[i].total_preferred_size, Zero)
            => (~last.panic /\ FEq(Allocs[i].alloc, Allocs[i].min_size))

\* The call of update_subtree on node n in the last pass.
CallOf(n) == Calls[CHOOSE i \in 1..Len(Calls) : Calls[i].node = n]
HasCall(n) == \E i \in 1..Len(Calls) : Calls[i].node = n

\* C6: stretch fills the cross axis: every child of a Horizontal flow
\* container with cross_align = Stretch is written a rect whose height is
\* the container's inner cross extent (its content area inset by its
\* padding) less the child's own top and bottom margin.
C6_StretchFillsCross ==
    Completed =>
        \A i \in 1..Len(Places) :
            LET e == Places[i].parent
                child == Places[i].child
                inner == Rect_inset(CallOf(e).content_area, world[e].padding)
            IN  (world[e].cross_align = "Stretch" /\ world[e].direction = "Horizontal")
                    => FEq(Rect_size(store[child].rect).y,
                           FSub(Rect_size(inner).y, Edges_size(world[child].margin).y))

\* The widths written for the first n of kids, summed, and their largest height.
RECURSIVE SumWidth(_, _)
SumWidth(kids, n) ==
    IF n = 0 THEN Zero
    ELSE FAdd(SumWidth(kids, n - 1), Rect_size(store[kids[n]].rect).x)
RECURSIVE MaxHeight(_, _)
MaxHeight(kids, n) ==
    IF n = 0 THEN Zero
    ELSE FMax(MaxHeight(kids, n - 1), Rect_size(store[kids[n]].rect).y)

\* Call i is on a Horizontal, Start-aligned flow container without padding,
\* whose children are leaves without margins, under limits.max that admit
\* the total preferred size.
StartRow(i) ==
    LET e == Calls[i].node
        kids == world[e].children
    IN  /\ world[e].kind = "flow"
        /\ world[e].direction = "Horizontal"
        /\ world[e].cross_align = "Start"
        /\ world[e].padding = EZero
        /\ \A j \in 1..Len(kids) :
               world[kids[j]].kind = "leaf" /\ world[kids[j]].margin = EZero
        /\ VLe(Rect_size(Layout_query_size(e, Calls[i].content_area).preferred),
               Calls[i].limits.max)

StartRowPlaced(i) ==
    LET e == Calls[i].node
        kids == world[e].children
    IN  /\ \A j \in 1..Len(kids) :
               VEq(VSub(store[kids[j]].local_position, Calls[i].content_area.min),
                   [x |-> SumWidth(kids, j - 1), y |-> Zero])
        /\ VEq(Rect_size(Calls[i].rect),
               [x |-> SumWidth(kids, Len(kids)), y |-> MaxHeight(kids, Len(kids))])

\* The row of the example: leaves {100,50} and {50,80} under limits.max {300,100}.
ExampleRow(align) ==
    /\ Completed
    /\ window = V(300, 100)
    /\ world[Root] = [Flow("Horizontal", align, EZero, EZero) EXCEPT !.children = <<1, 2>>]
    /\ world[1] = Leaf(UPx(100, 50), Unit_ZERO, EZero, Unit_ZERO, Unit_ZERO)
    /\ world[2] = Leaf(UPx(50, 80), Unit_ZERO, EZero, Unit_ZERO, Unit_ZERO)

\* C7 as stated: in a Horizontal flow container with cross_align = Start,
\* zero padding, leaf children with zero margins and limits.max at least the
\* total preferred size, each child's local_position is (sum of the widths
\* of the children before it, 0) from the content area origin and the
\* returned rect has size (sum of the widths, largest height).
C7_StartPlacement_Stated ==
    Completed => \A i \in 1..Len(Calls) : StartRow(i) => StartRowPlaced(i)

\* C7: the same, for leaves that have neither offset nor anchor and for
\* limits.min no larger than (sum of the widths, largest height); the row
\* of {100,50} and {50,80} under {300,100} has size {150,80} and puts its
\* children at {0,0} and {100,0}.
C7_StartPlacement ==
    /\ Completed =>
           \A i \in 1..Len(Calls) :
               LET kids == world[Calls[i].node].children
               IN  (/\ StartRow(i)
                    /\ \A j \in 1..Len(kids) :
                           /\ world[kids[j]].offset = Unit_ZERO
                           /\ world[kids[j]].anchor = Unit_ZERO
                    /\ VLe(Calls[i].limits.min,
                           [x |-> SumWidth(kids, Len(kids)),
                            y |-> MaxHeight(kids, Len(kids))]))
                       => StartRowPlaced(i)
    /\ ExampleRow("Start") =>
           /\ Rect_size(last.block.rect) = V(150, 80)
           /\ store[1].local_position = V(0, 0)
           /\ store[2].local_position = V(100, 0)

C7_Witness ==
    /\ ExampleRow("Start")
    /\ StartRow(Len(Calls))
    /\ Rect_size(store[1].rect) = V(100, 50)
    /\ store[2].local_position = V(100, 0)

\* The cross extent of the block of placement p, margins included.
CrossExtent(p) ==
    VDot(VAdd(Rect_size(p.block.rect), Edges_size(p.block.margin)),
         Direction_axis(world[p.parent].direction)[2])
\* The largest cross extent among the children of container e.
LargestCross(e) ==
    LET ext == { CrossExtent(Places[i]) : i \in { j \in 1..Len(Places) : Places[j].parent = e } }
    IN  CHOOSE m \in ext : \A x \in ext : FLe(x, m)
\* The shift along the cross axis of a block of cross extent size in a line
\* of cross extent total.
Shift(a, total, size) ==
    IF a = "Center" THEN FDiv(FSub(total, size), F(2))
    ELSE IF a = "End" THEN FSub(total, size)
    ELSE Zero
Aligned(p, total) ==
    LET e == p.parent
    IN  VEq(store[p.child].local_position,
            VAdd(p.placed,
                 VScale(Shift(world[e].cross_align, total, CrossExtent(p)),
                        Direction_axis(world[e].direction)[2])))

\* C8 as stated: the local_position written for a child of a flow container
\* is the cursor's placement position plus, along the cross axis, 0 for
\* Start and Stretch, half the slack for Center and the slack for End, the
\* slack being the line cross extent less the child's cross extent with
\* margins, and the line cross extent the largest such child extent.
C8_CrossAlign_Stated ==
    Completed =>
        \A i \in 1..Len(Places) : Aligned(Places[i], LargestCross(Places[i].parent))

\* C8: the same, with the line cross extent the largest child cross extent
\* including margins or 0, whichever is larger; for Horizontal children
\* {100,50} and {50,80} with Center the first is written {0,15} and the
\* second sits at cross offset 0.
C8_CrossAlign ==
    /\ Completed =>
           \A i \in 1..Len(Places) :
               Aligned(Places[i], FMax(Zero, LargestCross(Places[i].parent)))
    /\ ExampleRow("Center") =>
           /\ store[1].local_position = V(0, 15)
           /\ store[2].local_position.y = Zero

C8_Witness ==
    /\ ExampleRow("Center")
    /\ Len(Places) = 2
    /\ LargestCross(Root) = F(80)
    /\ store[1].local_position = V(0, 15)
    /\ store[2].local_position = V(100, 0)

\* The extent of placed block i along the axis of the cursor run.
Extent(i) ==
    FAdd(Rect_support(puts[i].block.rect, puts[i].before.axis),
         Rect_support(puts[i].block.rect, VNeg(puts[i].before.axis)))
RECURSIVE SumExtents(_)
SumExtents(n) == IF n = 0 THEN Zero ELSE FAdd(SumExtents(n - 1), Extent(n))
RECURSIVE SumGaps(_)
SumGaps(n) ==
    IF n <= 1 THEN Zero ELSE FAdd(SumGaps(n - 1), Collapse(Pending(n), Back(n)))
\* The trailing margin of the last block placed.
Trailing == Edges_in_axis(puts[Len(puts)].block.margin, line.before.axis)[1]
\* How far the bounding rect reaches along the axis of the run.
AxisSpan ==
    IF line.before.axis.x # Zero THEN Rect_size(line.rect).x ELSE Rect_size(line.rect).y
FAbs(a) == FMax(a, FNeg(a))

\* C9 as stated: the rect finish returns spans, along the axis, the first
\* block's leading margin, every block's extent, every collapsed gap and
\* the last block's trailing margin, and pending_margin is 0 afterwards.
C9_OuterMargins_Stated ==
    (line.done /\ Len(puts) >= 1) =>
        /\ AxisSpan = FAdd(FAdd(FAdd(Back(1), SumExtents(Len(puts))), SumGaps(Len(puts))),
                           Trailing)
        /\ mc.pending_margin = Zero

\* C9: the rect finish returns spans, along the axis, the distance from the
\* start to the cursor: the absolute value of the first block's leading
\* margin where positive, plus every block's extent, every collapsed gap
\* and the last block's trailing margin; pending_margin is 0 afterwards.
\* One Horizontal block {20,20} with margins left 10 and right 10 gives
\* width 40.
C9_OuterMargins ==
    (line.done /\ Len(puts) >= 1) =>
        /\ AxisSpan = FAbs(FAdd(FAdd(FAdd(FMax(Back(1), Zero), SumExtents(Len(puts))),
                                     SumGaps(Len(puts))),
                                Trailing))
        /\ mc.pending_margin = Zero
        /\ (/\ Len(puts) = 1
            /\ line.before.axis = VX
            /\ Rect_size(puts[1].block.rect) = V(20, 20)
            /\ puts[1].block.margin = E(10, 10, 0, 0))
               => Rect_size(line.rect).x = F(40)

C9_Witness ==
    /\ line.done
    /\ Len(puts) = 1
    /\ line.before.axis = VX
    /\ line.before.pending_margin = F(10)
    /\ Rect_size(puts[1].block.rect) = V(20, 20)
    /\ puts[1].block.margin = E(10, 10, 0, 0)
    /\ Rect_size(line.rect).x = F(40)
    /\ mc.pending_margin = Zero

\* C10: a dangling child reference is fatal: a pass over a tree in which a
\* node lists a child that is not in the store aborts, returns no Block and
\* stops the driver, whether the parent of that child is a flow container
\* (sizing query) or a stacking container (child loop).
C10_DanglingFatal ==
    \A e \in DOMAIN world :
        (/\ last.ran
         /\ world[e].kind \in {"flow", "stack"}
         /\ \E j \in 1..Len(world[e].children) : world[e].children[j] \notin alive)
            => (last.panic /\ last.block = NoBlock /\ status = "aborted")

C10_Witness ==
    /\ last.ran
    /\ last.panic
    /\ status = "aborted"
    /\ world[Root].kind = "flow"
    /\ Len(world[Root].children) = 2
    /\ world[Root].children[2] \notin alive
    /\ world[Root].children[1] \in alive

\* The sum of two finite numbers, not rounded.
Sum(a, b) == Norm(a[1] * b[2] + b[1] * a[2], a[2] * b[2])
\* a + b is computed by f32 addition without rounding, from finite operands.
ExactlyAdded(a, b) == IsFinite(a) /\ IsFinite(b) /\ FAdd(a, b) = Sum(a, b)
\* The first operation of the trip moved every coordinate without rounding.
FirstExact ==
    LET r == trip.rect
        e == IF trip.ops[1] = "inset" THEN trip.edges
             ELSE [left |-> FNeg(trip.edges.left), right |-> FNeg(trip.edges.right),
                   top |-> FNeg(trip.edges.top), bottom |-> FNeg(trip.edges.bottom)]
    IN  /\ ExactlyAdded(r.min.x, e.left)
        /\ ExactlyAdded(r.min.y, e.top)
        /\ ExactlyAdded(r.max.x, FNeg(e.right))
        /\ ExactlyAdded(r.max.y, FNeg(e.bottom))
RoundTrip == trip.ops = <<"inset", "pad">> \/ trip.ops = <<"pad", "inset">>

\* C11 as stated: for every rect R and edges E, negative edges and rects of
\* negative size included, R.inset(E).pad(E) equals R and R.pad(E).inset(E)
\* equals R.
C11_PadRoundTrip_Stated == RoundTrip => RectEq(trip.now, trip.rect)

\* C11: R.inset(E).pad(E) equals R and R.pad(E).inset(E) equals R for every
\* rect R and edges E with finite components, negative edges and rects of
\* negative size included, whenever the first of the two operations is
\* computed without rounding.
C11_PadRoundTrip == (RoundTrip /\ FirstExact) => RectEq(trip.now, trip.rect)

\* A rect of negative size is inset by edges of both signs, then padded back.
C11_Witness ==
    /\ trip.ops = <<"inset", "pad">>
    /\ trip.rect = [min |-> V(10, 10), max |-> V(4, 2)]
    /\ trip.edges = E(-3, -4, 1, 2)
    /\ FirstExact
    /\ RectEq(trip.now, trip.rect)

\* The axis of the container whose child allocation a is.
AxisOf(a) == Direction_axis(world[a.parent].direction)[1]
\* A scalar taken along the axis (a dot product with it) as the component
\* of that dimension: the reverse axes point the negative way.
Component(s, ax) == FMul(s, VDot(ax, VOne))
\* The extents of allocation a along the axis: the child's minimum and
\* preferred size from the sizing query, the total preferred size of the
\* container, limits.max of the container, and what the child is allowed.
MinExtent(a) == Component(a.min_size, AxisOf(a))
PreferredExtent(a) == Component(a.preferred_size, AxisOf(a))
TotalExtent(a) == Component(a.total_preferred_size, AxisOf(a))
MaxExtent(a) == Component(a.max_axis, AxisOf(a))
AllowedExtent(a) == Component(VDot(a.limits.max, AxisOf(a)), AxisOf(a))
Stretchiness(a) == FSub(PreferredExtent(a), MinExtent(a))
\* minSize + limits.max[axis] * (preferredSize - minSize) / totalPreferredSize
Proportional(a) ==
    FAdd(MinExtent(a), FDiv(FMul(MaxExtent(a), Stretchiness(a)), TotalExtent(a)))

\* C12: proportional allocation: every child of a flow container is allowed
\* minSize + limits.max[axis] * (preferredSize - minSize) / totalPreferredSize
\* along the axis; two children of a container with the same stretchiness
\* get the same share beyond their minimum, and a child whose minimum is its
\* preferred size gets exactly its minimum.
C12_Proportional ==
    \A i \in 1..Len(Allocs) :
        /\ AllowedExtent(Allocs[i]) = Proportional(Allocs[i])
        /\ \A j \in 1..Len(Allocs) :
               (/\ Allocs[j].parent = Allocs[i].parent
                /\ FEq(Stretchiness(Allocs[i]), Stretchiness(Allocs[j])))
                   => FSub(AllowedExtent(Allocs[i]), MinExtent(Allocs[i]))
                          = FSub(AllowedExtent(Allocs[j]), MinExtent(Allocs[j]))
        /\ FEq(MinExtent(Allocs[i]), PreferredExtent(Allocs[i]))
               => FEq(AllowedExtent(Allocs[i]), MinExtent(Allocs[i]))

\* The cursor as put call i left it.
After(i) ==
    IF i < Len(puts) THEN puts[i + 1].before
    ELSE IF line.done THEN line.before
    ELSE mc
\* The cross-axis size of block i plus its two cross-axis margins.
CrossSeen(i) ==
    LET c == puts[i].before
        se == Edges_in_axis(puts[i].block.margin, c.cross_axis)
    IN  FAdd(FAdd(VDot(Rect_size(puts[i].block.rect), c.cross_axis), se[1]), se[2])
\* The largest of them over the first n blocks.
LargestSeen(n) ==
    CHOOSE m \in { CrossSeen(i) : i \in 1..n } : \A i \in 1..n : FLe(CrossSeen(i), m)
NonNegativeSizes == \A i \in 1..Len(puts) : VLe(VZero, Rect_size(puts[i].block.rect))
\* The advance of every put is at least 0 and every block begins at or
\* beyond the far edge of the block before it.
NoOverlap ==
    /\ \A i \in 1..Len(puts) : FLe(Zero, advance(puts[i].before.pending_margin, Back(i)))
    /\ \A i \in 2..Len(puts) : FLe(FarEdge(i - 1), NearEdge(i))
LineHeightGrows ==
    \A i \in 1..Len(puts) : FLe(puts[i].before.line_height, After(i).line_height)

\* C13 as stated: after any run of put calls with blocks of non-negative
\* size and margins of any sign, in any of the four directions, no advance
\* is negative, every block is placed at or beyond the far edge of the
\* block before it, line_height never decreases, and line_height is the
\* largest cross-axis size plus cross-axis margins seen so far.
C13_NoOverlap_Stated ==
    NonNegativeSizes =>
        /\ NoOverlap
        /\ LineHeightGrows
        /\ \A i \in 1..Len(puts) : After(i).line_height = LargestSeen(i)

\* C13: the same, with line_height the largest cross-axis size plus
\* cross-axis margins seen so far or 0, whichever is larger.
C13_NoOverlap ==
    NonNegativeSizes =>
        /\ NoOverlap
        /\ LineHeightGrows
        /\ \A i \in 1..Len(puts) : After(i).line_height = FMax(Zero, LargestSeen(i))

\* Two blocks put right to left, the second with a negative facing margin,
\* both with cross-axis margins that outweigh their size.
C13_Witness ==
    /\ Len(puts) = 2
    /\ ~line.done
    /\ NonNegativeSizes
    /\ puts[1].before.axis = VNeg(VX)
    /\ FLt(Back(2), Zero)
    /\ FLe(FarEdge(1), NearEdge(2))
    /\ FLt(LargestSeen(2), Zero)
    /\ mc.line_height = Zero

====
